---- MODULE Spec2Model ----
(***************************************************************************)
(* Model of tetris.py: the bricks and blocks, the settled mapping          *)
(* (Game.building), row removal, and the two loops that call do_move       *)
(* (Game.mainloop on the timer thread, Game.listen_key_loop on the main    *)
(* thread).                                                                *)
(*                                                                         *)
(* A coordinate is a pair <<x, y>>.  A block is its class name (shape) and *)
(* the sequence of its 4 bricks' coordinates, in the order of              *)
(* init_coordinates.  building is the set of keys of Game.building: the    *)
(* brick objects stored as values are never read back for their x, y.      *)
(***************************************************************************)
EXTENDS Integers, Sequences, FiniteSets

\* ---- bounds of the model ----
\* boards: every width >= 1 and height >= 1 with width + height <= MaxSize
MaxSize == 7
\* blocks created in one game, the first one included
MaxBlocks == 3
\* the interleaved specification: one board, and fewer blocks
ConcWidth == 6
ConcHeight == 3
MaxConcBlocks == 2
\* the specification with a fair timer: one board, and fewer blocks
FairWidth == 4
FairHeight == 2
FairBlocks == 2

\* ---- program constants ----
border_size == 1

Catalog == {"IBlock", "LBlock", "JBlock", "ZBlock", "OBlock"}

directions == [KEY_LEFT |-> <<-1, 0>>, KEY_RIGHT |-> <<1, 0>>, down |-> <<0, 1>>]

rotate_directions == [KEY_UP |-> 1, KEY_DOWN |-> -1]

\* what win.getch() can hand to listen_key_loop: the four arrows, ESC (27),
\* or anything else (no key pressed, or a key the game ignores)
Keys == {"KEY_LEFT", "KEY_RIGHT", "KEY_UP", "KEY_DOWN", "ESC", "OTHER"}

Threads == {"timer", "input"}

\* width, height  the board (arguments of Game.__init__)
\* building       keys of Game.building
\* shape, bricks  class and brick coordinates of Game.current_block
\* stopped        mainloop_thread._stop
\* nblocks        number of blocks created so far
\* removed        rows update_building called remove_row with, last lock
\* pc             where each thread is in its loop
\* local          each thread's frame inside do_move when the two threads'
\*                calls are interleaved: the key it was called with
VARIABLES width, height, building, shape, bricks, stopped, nblocks, removed, pc, local

vars == <<width, height, building, shape, bricks, stopped, nblocks, removed, pc, local>>

\* ---- Brick ----

\* Brick.move that forgets to store the new y
BrickMove_KeepsRow(b, dx, dy) == <<b[1] + dx, b[2]>>

\* Brick.move
BrickMove(b, dx, dy) == <<b[1] + dx, b[2] + dy>>

\* Brick.can_move without the lookup in game.building
BrickCanMove_NoCollision(b, dx, dy, bld, w, h) ==
    LET x == b[1] + dx
        y == b[2] + dy
    IN  /\ x \in border_size..w
        /\ y \in 0..h

\* Brick.can_move with range(...) one short: the last column and row left out
BrickCanMove_ExclusiveRange(b, dx, dy, bld, w, h) ==
    LET x == b[1] + dx
        y == b[2] + dy
    IN  /\ x \in border_size..(w - 1)
        /\ y \in 0..(h - 1)
        /\ <<x, y>> \notin bld

\* Brick.can_move
BrickCanMove(b, dx, dy, bld, w, h) ==
    LET x == b[1] + dx
        y == b[2] + dy
    IN  /\ x \in border_size..w
        /\ y \in 0..h
        /\ <<x, y>> \notin bld

\* Brick.get_rotation_coords with the direction left out of dx
get_rotation_coords_NoDirection(b, direction, center) ==
    LET x == b[1] - center[1]
        y == b[2] - center[2]
    IN  <<(0 - y) - x, direction * x - y>>

\* Brick.get_rotation_coords
get_rotation_coords(b, direction, center) ==
    LET x == b[1] - center[1]
        y == b[2] - center[2]
    IN  <<(0 - direction) * y - x, direction * x - y>>

\* ---- Block and its subclasses ----

\* center_brick_index of each class (0-based, as in the source)
center_brick_index(s) ==
    CASE s = "IBlock" -> 2
      [] s = "OBlock" -> 0
      [] OTHER -> 1

init_coordinates(s, cx, cy) ==
    CASE s = "IBlock" -> << <<cx - 2, cy>>, <<cx - 1, cy>>, <<cx, cy>>, <<cx + 1, cy>> >>
      [] s = "LBlock" -> << <<cx - 1, cy>>, <<cx, cy>>, <<cx + 1, cy>>, <<cx - 1, cy + 1>> >>
      [] s = "JBlock" -> << <<cx - 1, cy>>, <<cx, cy>>, <<cx + 1, cy>>, <<cx + 1, cy + 1>> >>
      [] s = "ZBlock" -> << <<cx - 1, cy>>, <<cx, cy>>, <<cx, cy + 1>>, <<cx + 1, cy + 1>> >>
      [] s = "OBlock" -> << <<cx, cy>>, <<cx - 1, cy>>, <<cx, cy + 1>>, <<cx - 1, cy + 1>> >>

\* Block.can_move
BlockCanMove(bs, dx, dy, bld, w, h) ==
    \A i \in 1..Len(bs) : BrickCanMove(bs[i], dx, dy, bld, w, h)

\* Block.move
BlockMove(bs, dx, dy) == [i \in 1..Len(bs) |-> BrickMove(bs[i], dx, dy)]

\* Block.can_rotate (not overridden by OBlock)
BlockCanRotate(s, bs, direction, bld, w, h) ==
    \A i \in 1..Len(bs) :
        LET d == get_rotation_coords(bs[i], direction, bs[center_brick_index(s) + 1])
        IN  BrickCanMove(bs[i], d[1], d[2], bld, w, h)

\* the loop of Block.rotate turning about the first brick of the list
\* instead of bricks[center_brick_index]
RECURSIVE RotateFrom_AboutFirstBrick(_, _, _, _)
RotateFrom_AboutFirstBrick(s, bs, direction, i) ==
    IF i > Len(bs) THEN bs
    ELSE LET d == get_rotation_coords(bs[i], direction, bs[1])
         IN  RotateFrom_AboutFirstBrick(s, [bs EXCEPT ![i] = BrickMove(bs[i], d[1], d[2])],
                                        direction, i + 1)

\* the loop of Block.rotate from brick i on: each brick is moved in place,
\* reading the centre brick's coordinates as they are at that moment
RECURSIVE RotateFrom(_, _, _, _)
RotateFrom(s, bs, direction, i) ==
    IF i > Len(bs) THEN bs
    ELSE LET d == get_rotation_coords(bs[i], direction, bs[center_brick_index(s) + 1])
         IN  RotateFrom(s, [bs EXCEPT ![i] = BrickMove(bs[i], d[1], d[2])], direction, i + 1)

\* Block.rotate for every class: OBlock without its override
BlockRotate_NoOverride(s, bs, direction) == RotateFrom(s, bs, direction, 1)

\* Block.rotate, and OBlock.rotate which returns at once
BlockRotate(s, bs, direction) ==
    IF s = "OBlock" THEN bs ELSE RotateFrom(s, bs, direction, 1)

\* ---- Game: the settled mapping ----

\* Game.row_is_completed
row_is_completed(bld, y, w) ==
    \A x \in border_size..w : <<x, y>> \in bld

\* Game.move_bricks_down walking the column from the top row down to from_y
\* (range not reversed): a brick is written onto the row below before that
\* row's own brick has been moved
RECURSIVE MoveBricksDownAscending(_, _, _, _)
MoveBricksDownAscending(bld, from_x, y, from_y) ==
    IF y > from_y THEN bld
    ELSE IF <<from_x, y>> \in bld
         THEN MoveBricksDownAscending((bld \ {<<from_x, y>>}) \cup {<<from_x, y + 1>>},
                                      from_x, y + 1, from_y)
         ELSE MoveBricksDownAscending(bld, from_x, y + 1, from_y)

move_bricks_down_TopDown(bld, from_x, y) ==
    MoveBricksDownAscending(bld, from_x, border_size, y)

\* Game.move_bricks_down, its loop from row y upwards
\* (y runs over reversed(range(border_size, from_y + 1)))
RECURSIVE move_bricks_down(_, _, _)
move_bricks_down(bld, from_x, y) ==
    IF y < border_size THEN bld
    ELSE IF <<from_x, y>> \in bld
         THEN move_bricks_down((bld \ {<<from_x, y>>})
                                 \cup {<<from_x, y + directions.down[2]>>},
                               from_x, y - 1)
         ELSE move_bricks_down(bld, from_x, y - 1)

\* Game.remove_row, its loop from column x on
RECURSIVE RemoveRowFrom(_, _, _, _)
RemoveRowFrom(bld, x, y, w) ==
    IF x > w THEN bld
    ELSE RemoveRowFrom(move_bricks_down(bld \ {<<x, y>>}, x, y), x + 1, y, w)

remove_row(bld, y, w) == RemoveRowFrom(bld, border_size, y, w)

\* the second loop of Game.update_building walking the rows from the bottom
\* row up (row h first)
RECURSIVE ClearRowsFrom_BottomUp(_, _, _, _)
ClearRowsFrom_BottomUp(st, y, w, h) ==
    IF y > h THEN st
    ELSE LET row == h + border_size - y
         IN  IF row_is_completed(st.building, row, w)
             THEN ClearRowsFrom_BottomUp([building |-> remove_row(st.building, row, w),
                                          removed |-> Append(st.removed, row)],
                                         y + 1, w, h)
             ELSE ClearRowsFrom_BottomUp(st, y + 1, w, h)

\* the second loop of Game.update_building from row y on; st.building is the
\* mapping, st.removed the rows remove_row has been called with so far
RECURSIVE ClearRowsFrom(_, _, _, _)
ClearRowsFrom(st, y, w, h) ==
    IF y > h THEN st
    ELSE IF row_is_completed(st.building, y, w)
         THEN ClearRowsFrom([building |-> remove_row(st.building, y, w),
                             removed |-> Append(st.removed, y)], y + 1, w, h)
         ELSE ClearRowsFrom(st, y + 1, w, h)

\* the first loop of Game.update_building stopping one brick early
Commit_DropsLast(bld, bs) == bld \cup {bs[i] : i \in 1..(Len(bs) - 1)}

\* the first loop of Game.update_building
Commit(bld, bs) == bld \cup {bs[i] : i \in 1..Len(bs)}

\* Game.update_building with the row loop over range(border_size, height):
\* the bottom row is never tested
update_building_SkipsLastRow(bld, bs, w, h) ==
    ClearRowsFrom([building |-> Commit(bld, bs), removed |-> <<>>], border_size, w, h - 1)

\* Game.update_building
update_building(bld, bs, w, h) ==
    ClearRowsFrom([building |-> Commit(bld, bs), removed |-> <<>>], border_size, w, h)

\* the coordinates Game.create_block gives a new block of class s
\* (width/2 is Python 2 integer division)
create_block(s, w) == init_coordinates(s, w \div 2, 0)

\* ---- Game.do_move, run as one step ----

gameVars == <<building, shape, bricks, stopped, nblocks, removed>>

\* the lock branch testing the new block before update_building has run
Lock_TestsOldBuilding ==
    /\ nblocks < MaxBlocks
    /\ \E s \in Catalog :
          LET u == update_building(building, bricks, width, height)
              nb == create_block(s, width)
          IN  /\ building' = u.building
              /\ removed' = u.removed
              /\ shape' = s
              /\ bricks' = nb
              /\ nblocks' = nblocks + 1
              /\ stopped' = (stopped \/ ~BlockCanMove(nb, 0, 0, building, width, height))

\* the branch of do_move taken when the block cannot go down
Lock ==
    /\ nblocks < MaxBlocks
    /\ \E s \in Catalog :
          LET u == update_building(building, bricks, width, height)
              nb == create_block(s, width)
          IN  /\ building' = u.building
              /\ removed' = u.removed
              /\ shape' = s
              /\ bricks' = nb
              /\ nblocks' = nblocks + 1
              /\ stopped' = (stopped \/ ~BlockCanMove(nb, 0, 0, u.building, width, height))

\* Game.do_move with `elif key == 'down'` replaced by a plain else: any
\* blocked direction locks the block
do_move_LockAnyDirection(key) ==
    IF key \in DOMAIN directions
    THEN LET d == directions[key]
         IN  IF BlockCanMove(bricks, d[1], d[2], building, width, height)
             THEN /\ bricks' = BlockMove(bricks, d[1], d[2])
                  /\ UNCHANGED <<building, shape, stopped, nblocks, removed>>
             ELSE Lock
    ELSE IF key \in DOMAIN rotate_directions
         THEN LET direction == rotate_directions[key]
              IN  IF BlockCanRotate(shape, bricks, direction, building, width, height)
                  THEN /\ bricks' = BlockRotate(shape, bricks, direction)
                       /\ UNCHANGED <<building, shape, stopped, nblocks, removed>>
                  ELSE UNCHANGED gameVars
         ELSE UNCHANGED gameVars

\* Game.do_move calling redraw_block('rotate') without asking can_rotate
do_move_UngatedRotate(key) ==
    IF key \in DOMAIN directions
    THEN LET d == directions[key]
         IN  IF BlockCanMove(bricks, d[1], d[2], building, width, height)
             THEN /\ bricks' = BlockMove(bricks, d[1], d[2])
                  /\ UNCHANGED <<building, shape, stopped, nblocks, removed>>
             ELSE IF key = "down" THEN Lock
                  ELSE UNCHANGED gameVars
    ELSE IF key \in DOMAIN rotate_directions
         THEN /\ bricks' = BlockRotate(shape, bricks, rotate_directions[key])
              /\ UNCHANGED <<building, shape, stopped, nblocks, removed>>
         ELSE UNCHANGED gameVars

do_move(key) ==
    IF key \in DOMAIN directions
    THEN LET d == directions[key]
         IN  IF BlockCanMove(bricks, d[1], d[2], building, width, height)
             THEN /\ bricks' = BlockMove(bricks, d[1], d[2])
                  /\ UNCHANGED <<building, shape, stopped, nblocks, removed>>
             ELSE IF key = "down"
                  THEN Lock
                  ELSE UNCHANGED gameVars
    ELSE IF key \in DOMAIN rotate_directions
         THEN LET direction == rotate_directions[key]
              IN  IF BlockCanRotate(shape, bricks, direction, building, width, height)
                  THEN /\ bricks' = BlockRotate(shape, bricks, direction)
                       /\ UNCHANGED <<building, shape, stopped, nblocks, removed>>
                  ELSE UNCHANGED gameVars
         ELSE UNCHANGED gameVars

\* ---- the two loops ----

NoFrame == [key |-> "OTHER"]

\* Game.draw_block succeeds: win.addch raises curses.error for a brick that
\* is outside the window, which has h + 2 lines and w + 2 columns
draw_block(bs, w, h) ==
    \A i \in 1..Len(bs) : bs[i][1] \in 0..(w + 1) /\ bs[i][2] \in 0..(h + 1)

\* Game.__init__(blocks, width=w, height=h): building empty, first block
\* created by init_play_board without a can_move test and drawn (the
\* constructor raises when draw_block does); Game.start not yet called
Construct(w, h) ==
    /\ width = w
    /\ height = h
    /\ building = {}
    /\ shape \in Catalog
    /\ bricks = create_block(shape, w)
    /\ draw_block(bricks, w, h)
    /\ stopped = FALSE
    /\ nblocks = 1
    /\ removed = <<>>
    /\ pc = [t \in Threads |-> "new"]
    /\ local = [t \in Threads |-> NoFrame]

Init ==
    \E w \in 1..(MaxSize - 1) : \E h \in 1..(MaxSize - w) : Construct(w, h)

\* Game.start: the timer thread is started and the caller enters listen_key_loop
Start ==
    /\ pc["input"] = "new"
    /\ pc' = [t \in Threads |-> "test"]
    /\ UNCHANGED <<width, height, gameVars, local>>

\* `while not self.mainloop_thread.stopped()` of either loop
LoopTest(t) ==
    /\ pc[t] = "test"
    /\ pc' = [pc EXCEPT ![t] = IF stopped THEN "done" ELSE "body"]
    /\ UNCHANGED <<width, height, gameVars, local>>

\* body of Game.mainloop: sleep, then do_move('down')
TimerTick ==
    /\ pc["timer"] = "body"
    /\ do_move("down")
    /\ pc' = [pc EXCEPT !["timer"] = "test"]
    /\ UNCHANGED <<width, height, local>>

\* body of Game.listen_key_loop: getch, exit on ESC, do_move(key)
InputKey ==
    /\ pc["input"] = "body"
    /\ \E key \in Keys :
          IF key = "ESC"
          THEN /\ stopped' = TRUE
               /\ UNCHANGED <<building, shape, bricks, nblocks, removed>>
          ELSE do_move(key)
    /\ pc' = [pc EXCEPT !["input"] = "test"]
    /\ UNCHANGED <<width, height, local>>

Next ==
    \/ Start
    \/ \E t \in Threads : LoopTest(t)
    \/ TimerTick
    \/ InputKey

Spec == Init /\ [][Next]_vars

\* ---- the timer thread keeps running ----
\* Game.start is called once the game is built, and the timer thread is a
\* thread of its own: its loop test and its sleep-then-do_move('down') body
\* are taken again and again, whatever the input loop does meanwhile.
InitFair == Construct(FairWidth, FairHeight)

\* the timer's step, in a game of at most FairBlocks blocks: the block goes
\* down, or it is locked and the game has a block left to create
TimerTickFair ==
    /\ nblocks < FairBlocks \/ BlockCanMove(bricks, 0, 1, building, width, height)
    /\ TimerTick

NextFair ==
    \/ Start
    \/ \E t \in Threads : LoopTest(t)
    \/ TimerTickFair
    \/ InputKey

SpecFair ==
    /\ InitFair
    /\ [][NextFair]_vars
    /\ WF_vars(Start)
    /\ WF_vars(LoopTest("timer"))
    /\ WF_vars(TimerTickFair)

\* ---- construction with any size ----
\* Game.__init__ stores width and height as given: nothing tests them.  A
\* width or height of 0 reaches the same code as a positive one.
InitAnySize ==
    \E w \in 0..(MaxSize - 1) : \E h \in 0..(MaxSize - w) : Construct(w, h)

SpecAnySize == InitAnySize /\ [][Next]_vars

\* ---- the two loops with their do_move calls interleaved ----
\* Nothing in the source serialises the two threads: the interpreter may
\* switch threads between any two steps below.  (It may also switch inside
\* a step, between two bricks of one loop; those interleavings only add
\* behaviours to the ones kept here.)

\* top of a loop body: the timer thread sleeps and calls do_move('down'), the
\* main thread reads a key, calls exit on ESC, and calls do_move(key)
CallDoMove(t) ==
    /\ pc[t] = "body"
    /\ \E key \in (IF t = "timer" THEN {"down"} ELSE Keys) :
          /\ stopped' = (stopped \/ key = "ESC")
          /\ local' = [local EXCEPT ![t] = [key |-> key]]
          /\ pc' = [pc EXCEPT ![t] =
                      IF key \in DOMAIN directions \cup DOMAIN rotate_directions
                      THEN "check" ELSE "test"]
    /\ UNCHANGED <<width, height, building, shape, bricks, nblocks, removed>>

\* the can_move / can_rotate test of do_move on the block that is current now
CheckStep(t) ==
    /\ pc[t] = "check"
    /\ LET key == local[t].key
           ok == IF key \in DOMAIN directions
                 THEN BlockCanMove(bricks, directions[key][1], directions[key][2],
                                   building, width, height)
                 ELSE BlockCanRotate(shape, bricks, rotate_directions[key],
                                     building, width, height)
       IN  pc' = [pc EXCEPT ![t] = IF ok THEN "apply"
                                   ELSE IF key = "down" THEN "lock" ELSE "test"]
    /\ UNCHANGED <<width, height, gameVars, local>>

\* redraw_block: Block.move / Block.rotate (OBlock.rotate returns at once) on
\* the block that is current when redraw_block fetches it, which may have
\* moved, or been replaced, since CheckStep looked at it
ApplyStep(t) ==
    /\ pc[t] = "apply"
    /\ LET key == local[t].key
       IN  bricks' = IF key \in DOMAIN directions
                     THEN BlockMove(bricks, directions[key][1], directions[key][2])
                     ELSE BlockRotate(shape, bricks, rotate_directions[key])
    /\ pc' = [pc EXCEPT ![t] = "test"]
    /\ local' = [local EXCEPT ![t] = NoFrame]
    /\ UNCHANGED <<width, height, building, shape, stopped, nblocks, removed>>

\* update_building, called by do_move('down')
LockStep(t) ==
    /\ pc[t] = "lock"
    /\ nblocks < MaxConcBlocks
    /\ LET u == update_building(building, bricks, width, height)
       IN  /\ building' = u.building
           /\ removed' = u.removed
    /\ pc' = [pc EXCEPT ![t] = "spawn"]
    /\ UNCHANGED <<width, height, shape, bricks, stopped, nblocks, local>>

\* create_block
SpawnStep(t) ==
    /\ pc[t] = "spawn"
    /\ \E s \in Catalog :
          /\ shape' = s
          /\ bricks' = create_block(s, width)
    /\ nblocks' = nblocks + 1
    /\ pc' = [pc EXCEPT ![t] = "over"]
    /\ UNCHANGED <<width, height, building, stopped, removed, local>>

\* `if not self.current_block.can_move(self, 0, 0): self.exit()`
OverStep(t) ==
    /\ pc[t] = "over"
    /\ stopped' = (stopped \/ ~BlockCanMove(bricks, 0, 0, building, width, height))
    /\ pc' = [pc EXCEPT ![t] = "test"]
    /\ local' = [local EXCEPT ![t] = NoFrame]
    /\ UNCHANGED <<width, height, building, shape, bricks, nblocks, removed>>

NextConc ==
    \/ Start
    \/ \E t \in Threads : LoopTest(t)
    \/ \E t \in Threads : CallDoMove(t)
    \/ \E t \in Threads : CheckStep(t)
    \/ \E t \in Threads : ApplyStep(t)
    \/ \E t \in Threads : LockStep(t)
    \/ \E t \in Threads : SpawnStep(t)
    \/ \E t \in Threads : OverStep(t)

InitConc == Construct(ConcWidth, ConcHeight)

SpecConc == InitConc /\ [][NextConc]_vars


\* ---- vocabulary of the properties ----

Columns(w) == border_size..w

Rows(h) == 0..h

InBounds(c, w, h) == c[1] \in Columns(w) /\ c[2] \in Rows(h)

Cells(bs) == {bs[i] : i \in 1..Len(bs)}

\* all cells in bounds and none of them settled
CanOccupy(cells, bld, w, h) ==
    \A c \in cells : InBounds(c, w, h) /\ c \notin bld

\* the current block is where create_block put it
AtSpawn == bricks = init_coordinates(shape, width \div 2, 0)

\* the board has room for every shape of the catalog at its spawn cells
SpawnsFit ==
    \A s \in Catalog :
        CanOccupy(Cells(init_coordinates(s, width \div 2, 0)), {}, width, height)

\* the game is running on a mapping that lies within the board, with the
\* current block in bounds and clear of it
InPlay ==
    /\ ~stopped
    /\ \A c \in building : InBounds(c, width, height)
    /\ CanOccupy(Cells(bricks), building, width, height)

\* a step that applied a move or a rotation to the current block
MoveApplied == bricks' # bricks /\ nblocks' = nblocks

\* a step in which do_move locked the block
Locked == nblocks' # nblocks

RowFull(bld, y, w) == \A x \in Columns(w) : <<x, y>> \in bld

ColumnCount(bld, x) == Cardinality({c \in bld : c[1] = x})

\* the mapping remove_row is called with for the k-th row of rows, when the
\* mapping right after the commit is bld
RECURSIVE BeforeClear(_, _, _, _)
BeforeClear(bld, rows, k, w) ==
    IF k = 1 THEN bld
    ELSE remove_row(BeforeClear(bld, rows, k - 1, w), rows[k - 1], w)

\* ---- C1 ----
\* C1: with do_move run as one step, every step that applies a left, right,
\* descend or rotate to the current block leaves its 4 cells in
\* [border_size, width] x [0, height] and off the settled mapping.
C1_MoveLandsFree ==
    [][MoveApplied => CanOccupy(Cells(bricks'), building', width, height)]_vars

\* a block that has been moved or rotated and now rests on a settled cell
C1_Witness ==
    /\ InPlay
    /\ ~AtSpawn
    /\ building # {}
    /\ \E c \in Cells(bricks) : <<c[1], c[2] + 1>> \in building
    /\ \E c \in Cells(bricks) : <<c[1] - 1, c[2]>> \in building

\* ---- C2 ----
\* C2: with the two threads' do_move calls interleaved, once no move is
\* pending (no thread stands between its check and the move it gates, nor
\* inside a lock) a block that has left its spawn cells has all 4 cells in
\* bounds and off the settled mapping.
C2_InterleavingSafe ==
    ((\A t \in Threads : pc[t] \notin {"apply", "lock", "spawn", "over"}) /\ ~AtSpawn)
        => CanOccupy(Cells(bricks), building, width, height)

\* ---- C3 ----
\* C3: once the stop flag is set, no step changes the settled mapping or the
\* current block's cells (stated on the boards every shape fits on).
C3_GameOverTerminal ==
    [][(stopped /\ SpawnsFit) => (building' = building /\ bricks' = bricks)]_vars

\* ---- C4 ----
\* C4: a freshly spawned block whose cells are not all in bounds and free is
\* never moved, rotated or committed: the first spawn included.
C4_SpawnChecked ==
    [][(AtSpawn /\ ~CanOccupy(Cells(bricks), building, width, height))
         => (bricks' = bricks /\ building' = building /\ nblocks' = nblocks)]_vars

\* ---- C5 ----
\* C5: every key of the settled mapping is in [border_size, width] x [0, height].
C5_SettledInBounds ==
    \A c \in building : InBounds(c, width, height)

\* ---- C6 ----
\* C6: each remove_row(y) of a lock moves every cell of a row r < y (row 0
\* included) one row down and leaves the cells of the rows below y where
\* they were (stated on the boards every shape fits on).
C6_RowsAboveShift ==
    [][Locked =>
         \A k \in 1..Len(removed') :
            LET b == BeforeClear(Commit(building, bricks), removed', k, width)
                y == removed'[k]
            IN  SpawnsFit
                  => remove_row(b, y, width)
                       = {<<c[1], c[2] + 1>> : c \in {e \in b : e[2] < y}}
                            \cup {c \in b : c[2] > y}]_vars

\* ---- C7 ----
\* C7: each remove_row(y) of a lock removes the width entries of row y and
\* nothing else: the mapping shrinks by exactly width cells, every interior
\* column by exactly one, and no other column changes.
C7_RemoveRowCount ==
    [][Locked =>
         \A k \in 1..Len(removed') :
            LET b == BeforeClear(Commit(building, bricks), removed', k, width)
                y == removed'[k]
                a == remove_row(b, y, width)
            IN  /\ Cardinality({c \in b : c[2] = y /\ c[1] \in Columns(width)}) = width
                /\ Cardinality(a) = Cardinality(b) - width
                /\ \A x \in {c[1] : c \in a \cup b} :
                      ColumnCount(a, x) = ColumnCount(b, x)
                                            - (IF x \in Columns(width) THEN 1 ELSE 0)
                /\ (k = Len(removed') => building' = a)]_vars

\* a lock has removed a row and cells that were stacked above it are still
\* settled
C7_Witness ==
    /\ InPlay
    /\ removed # <<>>
    /\ \E c \in building : <<c[1], c[2] - 1>> \in building

\* ---- C8 ----
\* C8: the rows a lock removes are exactly the rows of [border_size, height]
\* that were complete right after the commit, each removed once, under its
\* original index.
C8_ClearsOriginalRows ==
    [][Locked =>
         /\ {removed'[k] : k \in 1..Len(removed')}
              = {y \in border_size..height : RowFull(Commit(building, bricks), y, width)}
         /\ \A j, k \in 1..Len(removed') : removed'[j] = removed'[k] => j = k]_vars

\* the second lock of a game has removed two rows
C8_Witness ==
    /\ InPlay
    /\ nblocks >= 3
    /\ Len(removed) >= 2

\* ---- C9 ----
\* C9: for I, L, J and Z, wherever the block is, rotate(+1) then rotate(-1),
\* and rotate(-1) then rotate(+1), puts all 4 bricks back.
C9_RotateRoundTrip ==
    shape # "OBlock" =>
        /\ BlockRotate(shape, BlockRotate(shape, bricks, 1), -1) = bricks
        /\ BlockRotate(shape, BlockRotate(shape, bricks, -1), 1) = bricks

\* an I-block that a rotate request has stood upright
C9_Witness ==
    /\ InPlay
    /\ shape = "IBlock"
    /\ \A i \in 1..Len(bricks) : bricks[i][1] = bricks[1][1]

\* ---- C10 ----
\* C10: for an O-block that is on the board and clear of settled cells,
\* can_rotate is true in both directions.
C10_OCanAlwaysRotate ==
    (shape = "OBlock" /\ CanOccupy(Cells(bricks), building, width, height))
        => /\ BlockCanRotate(shape, bricks, 1, building, width, height)
           /\ BlockCanRotate(shape, bricks, -1, building, width, height)

\* ---- C11 ----
\* the cells a rotation about the pivot brick sends the block to: the brick
\* at offset (ox, oy) from the pivot goes to (px - direction*oy, py + direction*ox)
PivotOf(s, bs) == bs[IF s = "IBlock" THEN 3 ELSE IF s = "OBlock" THEN 1 ELSE 2]

RotatedBricks(s, bs, direction) ==
    LET p == PivotOf(s, bs)
    IN  [i \in 1..Len(bs) |->
            <<p[1] - direction * (bs[i][2] - p[2]), p[2] + direction * (bs[i][1] - p[1])>>]

RotateKeys == {"KEY_UP", "KEY_DOWN"}

\* C11: a rotate request, in either direction, on an O-block leaves the 4
\* cells of the block and the settled mapping as they were.
C11_ORotateNoOp ==
    [][\A key \in RotateKeys :
          (shape = "OBlock" /\ do_move(key)) => (bricks' = bricks /\ building' = building)]_vars

\* an O-block in play, moved off its spawn cells, beside settled cells, that
\* passes the can_rotate test: the request reaches OBlock.rotate
C11_Witness ==
    /\ InPlay
    /\ shape = "OBlock"
    /\ ~AtSpawn
    /\ building # {}
    /\ pc["input"] = "body"
    /\ CanOccupy(Cells(RotatedBricks(shape, bricks, 1)), building, width, height)

\* ---- C12 ----
\* the cells a request for key would put the block on
Target(key) ==
    IF key \in RotateKeys
    THEN Cells(RotatedBricks(shape, bricks, IF key = "KEY_UP" THEN 1 ELSE -1))
    ELSE {<<c[1] + (IF key = "KEY_LEFT" THEN -1 ELSE 1), c[2]>> : c \in Cells(bricks)}

Feasible(key) == CanOccupy(Target(key), building, width, height)

\* C12: a left, right or rotate request whose target cells are not all free
\* and in bounds changes nothing: the block's cells, the settled mapping and
\* the game-over flag stay as they were, and no block is spawned.  (Written
\* from the effect: a step that changes any of these is not the step of such
\* a request.)
C12_InfeasibleNoOp ==
    [][\A key \in {"KEY_LEFT", "KEY_RIGHT"} \cup RotateKeys :
          (~UNCHANGED <<bricks, shape, building, stopped, nblocks>> /\ ~Feasible(key))
              => ~do_move(key)]_vars

\* a block in play that a settled cell (not a wall) keeps from moving left
\* and from rotating, with the input loop about to deliver a key
C12_Witness ==
    /\ InPlay
    /\ pc["input"] = "body"
    /\ \E c \in Cells(bricks) : <<c[1] - 1, c[2]>> \in building
    /\ ~Feasible("KEY_LEFT")
    /\ ~Feasible("KEY_UP")
    /\ \E c \in Target("KEY_UP") : c \in building

\* ---- C13 ----
\* every key do_move can be called with
RequestKeys == Keys \cup {"down"}

\* C13: a lock (while the flag is clear) sets the game-over flag exactly
\* when the block it spawns has a cell that is settled or out of bounds; a
\* move request that does not lock leaves the flag as it was (a step that
\* changes the flag without a lock is the step of no move request); and the
\* flag, once set, stays set.
C13_GameOverOnFailedSpawn ==
    [][/\ (Locked /\ ~stopped)
            => (stopped' <=> ~CanOccupy(Cells(bricks'), building', width, height))
       /\ \A key \in RequestKeys : (~Locked /\ stopped' # stopped) => ~do_move(key)
       /\ stopped => stopped']_vars

\* the game ended by a lock: on a board that fits every spawn, the block
\* just spawned sits on settled cells and the flag is set
C13_Witness ==
    /\ SpawnsFit
    /\ stopped
    /\ nblocks >= 2
    /\ AtSpawn
    /\ \E c \in Cells(bricks) : c \in building
    /\ pc["timer"] = "test"

\* ---- C14 ----
Displacements == {-1, 0, 1}

Displaced(cells, dx, dy) == {<<c[1] + dx, c[2] + dy>> : c \in cells}

\* can_move against the claim's condition, for the block and the mapping of
\* the current state and every displacement of at most one cell
CanMoveAgrees ==
    \A dx \in Displacements : \A dy \in Displacements :
        BlockCanMove(bricks, dx, dy, building, width, height)
            <=> \A i \in 1..4 :
                    LET x == bricks[i][1] + dx
                        y == bricks[i][2] + dy
                    IN  /\ x >= border_size /\ x <= width
                        /\ y >= 0 /\ y <= height
                        /\ \A c \in building : c # <<x, y>>

\* C14: Block.can_move(game, dx, dy) is true exactly when each of the 4
\* cells, displaced by (dx, dy), has its x in [border_size, width], its y in
\* [0, height], and is no key of the settled mapping.
C14_CanMoveMeaning == []CanMoveAgrees

\* a block in play on the last column and the last row, free to go left,
\* kept from going up-left by a settled cell and from going right and down
\* by the walls
C14_Witness ==
    /\ InPlay
    /\ \E c \in Cells(bricks) : c[1] = width
    /\ \E c \in Cells(bricks) : c[2] = height
    /\ BlockCanMove(bricks, -1, 0, building, width, height)
    /\ ~BlockCanMove(bricks, 1, 0, building, width, height)
    /\ ~BlockCanMove(bricks, 0, 1, building, width, height)
    /\ \E c \in Displaced(Cells(bricks), -1, -1) : c \in building

\* ---- C15 ----
\* C15: the settled mapping changes only in a lock, the step of a descend
\* request whose target cells are not all free; left, right and rotate
\* requests, and descend requests that are feasible, leave it unchanged (a
\* step that changes it is the step of none of them).
C15_OnlyLockChangesBuilding ==
    [][/\ (building' # building)
            => (Locked /\ ~CanOccupy(Displaced(Cells(bricks), 0, 1), building, width, height))
       /\ \A key \in RequestKeys :
            (/\ building' # building
             /\ key = "down" => CanOccupy(Displaced(Cells(bricks), 0, 1), building, width, height))
            => ~do_move(key)]_vars

\* after a lock, the next block has been moved and rotated and has gone
\* down, and the cells settled by the lock are still there
C15_Witness ==
    /\ InPlay
    /\ nblocks >= 2
    /\ Cardinality(building) = 4
    /\ ~AtSpawn
    /\ PivotOf(shape, bricks)[2] >= 1
    /\ shape # "OBlock"
    /\ bricks[1][1] = bricks[2][1]

\* ---- C16 ----
\* C16: with do_move calls run one at a time, the 4 cells of a locking block
\* are 4 new keys of the settled mapping, and the number of settled cells
\* after the lock is the number before, plus 4, minus width for each row
\* the lock removed.
C16_LockCount ==
    [][Locked =>
        /\ Cardinality(Cells(bricks)) = 4
        /\ Cells(bricks) \cap building = {}
        /\ Cardinality(building') = Cardinality(building) + 4 - width * Len(removed')]_vars

\* a third block or later, spawned by a lock that removed a row and left
\* settled cells behind
C16_Witness ==
    /\ InPlay
    /\ nblocks >= 3
    /\ AtSpawn
    /\ Len(removed) >= 1
    /\ building # {}

\* ---- C17 ----
\* C17: a Game constructed with a non-positive width or height fails at
\* construction: there is no playable state, a board of such a size with a
\* current block on free cells of it.
C17_BadSizeRejected ==
    ~((width <= 0 \/ height <= 0) /\ CanOccupy(Cells(bricks), building, width, height))

\* ---- C18 ----
\* C18: a feasible rotate request on a block that is not an O-block puts
\* each brick, at offset (ox, oy) from the pivot before the rotation, on
\* (pivot.x - direction*oy, pivot.y + direction*ox): the cells can_rotate
\* tested.  The pivot brick stays where it was, although rotate moves the
\* bricks one after the other while reading the pivot's coordinates.
C18_RotateLandsOnChecked ==
    [][\A key \in RotateKeys :
          (shape # "OBlock" /\ Feasible(key) /\ do_move(key))
              => /\ bricks' = RotatedBricks(shape, bricks, IF key = "KEY_UP" THEN 1 ELSE -1)
                 /\ PivotOf(shape, bricks') = PivotOf(shape, bricks)]_vars

\* a Z-block in play standing upright (its first two bricks in one column):
\* it has been rotated, with settled cells on the board
C18_Witness ==
    /\ InPlay
    /\ shape = "ZBlock"
    /\ bricks[1][1] = bricks[2][1]
    /\ building # {}
    /\ pc["input"] = "test"

\* ---- C19 ----
\* C19: once update_building has returned, no row from border_size to
\* height is complete: in every state each of these rows has an interior
\* column that is no key of the settled mapping.
C19_NoCompleteRowLeft ==
    \A y \in border_size..height : \E x \in Columns(width) : <<x, y>> \notin building

\* the last lock removed a row and left settled cells on the board, some of
\* them on the bottom row, and the next block is falling
C19_Witness ==
    /\ InPlay
    /\ ~AtSpawn
    /\ removed # <<>>
    /\ \E c \in building : c[2] = height
    /\ pc["timer"] = "body"

\* ---- C20 ----
PivotRow == PivotOf(shape, bricks)[2]

\* C20: as long as the game is not over and the timer keeps ticking, the
\* falling block is eventually locked, whatever left, right and rotate
\* requests come in between.  The pivot row stays within 0..height, no step
\* short of a lock lowers its number, and every descend request that does
\* not lock adds one to it: a block is locked by its (height + 1)-th
\* descend request at the latest.  nblocks only grows, and grows by a lock:
\* a game that is never over reaches the last block the model lets it create.
C20_BlockEventuallyLocks ==
    /\ [](PivotRow \in 0..height)
    /\ [][~Locked => PivotRow' >= PivotRow]_vars
    /\ [][(~Locked /\ do_move("down")) => PivotRow' = PivotRow + 1]_vars
    /\ <>(stopped \/ nblocks >= FairBlocks)

\* a block went all the way down and was locked on the bottom row, and the
\* next block has gone all the way down too
C20_Witness ==
    /\ InPlay
    /\ nblocks >= 2
    /\ \E c \in building : c[2] = height
    /\ PivotRow = height
    /\ height >= 2

====
